---------------------------- MODULE Spec2Model ----------------------------
(***************************************************************************)
(* Subdomain provisioning admission control and audit trail.               *)
(*                                                                         *)
(* Model of backend/app/services/security_service.py (SecurityService)     *)
(* and backend/app/services/secure_deployment_service.py                   *)
(* (SecureDeploymentService), as driven by the endpoints of                *)
(* backend/app/api/secure_deployment.py.                                   *)
(*                                                                         *)
(* Scheduling.  Every endpoint is an `async def` run on one asyncio event  *)
(* loop.  A coroutine gives up the loop only where it awaits something     *)
(* that really suspends; awaiting a coroutine that contains no such await  *)
(* runs it to completion in place.  The only suspending await of the two   *)
(* services is asyncio.sleep(2) at secure_deployment_service.py:279, and   *)
(* create_secure_subdomain raises at line 129 long before it gets there,   *)
(* so every handler that can run does so from its first line to its        *)
(* return without interruption.  Concurrent requests are therefore         *)
(* executed one whole handler after another, in any order: that order is   *)
(* the nondeterministic choice of Next.                                    *)
(*                                                                         *)
(* Names are sequences of one-character strings.  A Python None in a       *)
(* string-valued field is the string "None"; a None subdomain is the empty *)
(* sequence; a None metadata dict is the empty set of key-value pairs.     *)
(***************************************************************************)
EXTENDS Integers, Sequences, FiniteSets, TLC

(***************************************************************************)
(* Bounds of the model.                                                    *)
(***************************************************************************)
\* The clock runs from 0 to MaxTime ticks.
MaxTime == 3
\* Number of rate checks, over all clients, that the history records.
MaxChecks == 7
\* Number of audit events the log may hold before appending handlers stop.
MaxLog == 2

(***************************************************************************)
(* Program constants.                                                      *)
(***************************************************************************)
\* timedelta(hours=1) of _check_rate_limit, in clock ticks.
Hour == 2
\* `len(self.rate_limit_store[client_ip]) >= 5`
MaxAttempts == 5
\* `len(subdomain_name) < 3 or len(subdomain_name) > 63`
MinLen == 3
MaxLen == 63

Clients == {"10.0.0.5", "10.0.0.6"}
MainClients == {"10.0.0.5"}

\* Argument left out of a call (a required dataclass field that is not passed).
NoArg == "<missing>"

(***************************************************************************)
(* Characters and strings.                                                 *)
(***************************************************************************)
LowerSeq ==
    <<"a", "b", "c", "d", "e", "f", "g", "h", "i", "j", "k", "l", "m",
      "n", "o", "p", "q", "r", "s", "t", "u", "v", "w", "x", "y", "z">>
UpperSeq ==
    <<"A", "B", "C", "D", "E", "F", "G", "H", "I", "J", "K", "L", "M",
      "N", "O", "P", "Q", "R", "S", "T", "U", "V", "W", "X", "Y", "Z">>
LowerAlpha == {LowerSeq[i] : i \in 1..26}
Digit == {"0", "1", "2", "3", "4", "5", "6", "7", "8", "9"}
\* The character class [a-z0-9].
AlNum == LowerAlpha \cup Digit

UpperAlpha == {UpperSeq[i] : i \in 1..26}
\* str.lower() on one character.
LowerOf == [u \in UpperAlpha |-> LowerSeq[CHOOSE i \in 1..26 : UpperSeq[i] = u]]
LowerChar(c) == IF c \in UpperAlpha THEN LowerOf[c] ELSE c
\* str.lower()
Lower(s) == [i \in 1..Len(s) |-> LowerChar(s[i])]

\* `tok in s` for strings, and re.search of a literal pattern.
Contains(s, tok) ==
    \E i \in 1..(Len(s) - Len(tok) + 1) :
        \A j \in 1..Len(tok) : s[i + j - 1] = tok[j]

\* `any(tok in s for tok in tokens)`
ContainsAny(s, tokens) == \E k \in 1..Len(tokens) : Contains(s, tokens[k])

\* s.count(c) for a single character c.
CountChar(s, c) == Cardinality({i \in 1..Len(s) : s[i] = c})

\* A whole string in [a-z0-9]([a-z0-9-]*[a-z0-9])?
FormatCore(s) ==
    /\ Len(s) >= 1
    /\ s[1] \in AlNum
    /\ s[Len(s)] \in AlNum
    /\ \A i \in 1..Len(s) : s[i] \in AlNum \cup {"-"}

\* re.match(r'^[a-z0-9]([a-z0-9-]*[a-z0-9])?$', s): `$` matches at the end
\* of the string and also just before a newline that ends the string.
FormatMatch(s) ==
    \/ FormatCore(s)
    \/ /\ Len(s) >= 2
       /\ s[Len(s)] = "\n"
       /\ FormatCore(SubSeq(s, 1, Len(s) - 1))

blocked_patterns ==
    << <<"a", "d", "m", "i", "n">>,
       <<"a", "p", "i">>,
       <<"w", "w", "w">>,
       <<"m", "a", "i", "l">>,
       <<"f", "t", "p">>,
       <<"s", "s", "h">>,
       <<"t", "e", "l", "n", "e", "t">>,
       <<"r", "o", "o", "t">>,
       <<"s", "y", "s", "t", "e", "m">>,
       <<"c", "o", "n", "f", "i", "g">>,
       <<"b", "a", "c", "k", "u", "p">>,
       <<"t", "e", "s", "t">>,
       <<"d", "e", "v">>,
       <<"s", "t", "a", "g", "i", "n", "g">>,
       <<"b", "e", "t", "a">>,
       <<"a", "l", "p", "h", "a">>,
       <<"l", "o", "c", "a", "l">>,
       <<"l", "o", "c", "a", "l", "h", "o", "s", "t">>,
       <<"s", "e", "c", "u", "r", "e">>,
       <<"l", "o", "g", "i", "n">>,
       <<"a", "u", "t", "h">>,
       <<"o", "a", "u", "t", "h">>,
       <<"p", "a", "y", "m", "e", "n", "t">>,
       <<"b", "a", "n", "k">>,
       <<"p", "a", "y", "p", "a", "l">>,
       <<"s", "t", "r", "i", "p", "e">>,
       <<"c", "r", "e", "d", "i", "t">>,
       <<"c", "a", "r", "d">> >>

suspicious_chars ==
    << <<"-", "-">>,
       <<"/", "*">>,
       <<"*", "/">>,
       <<"u", "n", "i", "o", "n">>,
       <<"s", "e", "l", "e", "c", "t">>,
       <<"i", "n", "s", "e", "r", "t">>,
       <<"u", "p", "d", "a", "t", "e">>,
       <<"d", "e", "l", "e", "t", "e">>,
       <<"d", "r", "o", "p">>,
       <<"c", "r", "e", "a", "t", "e">>,
       <<"a", "l", "t", "e", "r">>,
       <<"e", "x", "e", "c">>,
       <<"e", "v", "a", "l">>,
       <<"s", "c", "r", "i", "p", "t">>,
       <<"j", "a", "v", "a", "s", "c", "r", "i", "p", "t">>,
       <<"v", "b", "s", "c", "r", "i", "p", "t">>,
       <<"o", "n", "l", "o", "a", "d">>,
       <<"o", "n", "e", "r", "r", "o", "r">> >>

\* The Cyrillic look-alikes of _detect_homograph_attack, by code point.
suspicious_unicode ==
    <<"U+0430", "U+0435", "U+043E", "U+0440", "U+0441", "U+0443",
      "U+0445", "U+0454", "U+0456", "U+0457", "U+0491", "U+04CF">>

(***************************************************************************)
(* State.                                                                  *)
(***************************************************************************)
VARIABLES
    now,                 \* datetime.now(), in ticks
    rate_limit_store,    \* SecurityService.rate_limit_store: client -> timestamps
    security_audit_log,  \* SecurityService.security_audit_log: list of events
    active_subdomains,   \* SecureDeploymentService.active_subdomains: name -> record
    last,                \* the last validate, provision or revoke request and its answer
    checks               \* history: per client, every rate check made and its verdict

vars == <<now, rate_limit_store, security_audit_log, active_subdomains, last, checks>>

(***************************************************************************)
(* SecurityService: audit events.                                          *)
(***************************************************************************)
\* The dataclass constructor.  client_ip has no default, so a call that
\* does not pass it raises TypeError before any event exists.
SecurityAudit(event_type, severity, client_ip, subdomain, threat_type, metadata) ==
    IF client_ip = NoArg
    THEN [raised |-> TRUE, exc |-> "TypeError"]
    ELSE [raised |-> FALSE,
          event_type |-> event_type,
          severity |-> severity,
          client_ip |-> client_ip,
          subdomain |-> subdomain,
          threat_type |-> threat_type,
          metadata |-> metadata]

\* The log with the event of `audit` appended (the description text, which
\* repeats subdomain or client_ip, is left out).
LogAppendFront(log, audit, t) ==
    <<[timestamp |-> t,
       event_type |-> audit.event_type,
       severity |-> audit.severity,
       client_ip |-> audit.client_ip,
       subdomain |-> audit.subdomain,
       threat_type |-> audit.threat_type,
       metadata |-> audit.metadata]>> \o log

LogSecurityAudit(log, audit, t) ==
    Append(log, [timestamp |-> t,
                 event_type |-> audit.event_type,
                 severity |-> audit.severity,
                 client_ip |-> audit.client_ip,
                 subdomain |-> audit.subdomain,
                 threat_type |-> audit.threat_type,
                 metadata |-> audit.metadata])

(***************************************************************************)
(* SecurityService._check_rate_limit                                       *)
(***************************************************************************)
\* The timestamps of `window` that are less than an hour old at time t.
Unexpired(window, t) == SelectSeq(window, LAMBDA x : t - x < Hour)

\* A rate check that records the attempt without looking at the count, as a
\* check made on a count read before another request's append would.
CheckRateLimitNoLimit(store, log, client_ip, t) ==
    LET s1 == IF client_ip \in DOMAIN store THEN store
              ELSE store @@ (client_ip :> <<>>)
    IN  [ok |-> TRUE,
         store |-> [s1 EXCEPT ![client_ip] = Append(Unexpired(s1[client_ip], t), t)],
         log |-> log]

\* A rate check whose comparison is `>` where the code has `>=`.
CheckRateLimitOffByOne(store, log, client_ip, t) ==
    LET s1 == IF client_ip \in DOMAIN store THEN store
              ELSE store @@ (client_ip :> <<>>)
        s2 == [s1 EXCEPT ![client_ip] = Unexpired(s1[client_ip], t)]
    IN  IF Len(s2[client_ip]) > MaxAttempts
        THEN [ok |-> FALSE,
              store |-> s2,
              log |-> LogSecurityAudit(log,
                         SecurityAudit("rate_limit_violation", "high", client_ip,
                                       <<>>, "rate_limit_violation", {}), t)]
        ELSE [ok |-> TRUE,
              store |-> [s2 EXCEPT ![client_ip] = Append(s2[client_ip], t)],
              log |-> log]

\* A rate check that records the rejected attempt in the window as well.
CheckRateLimitRecordsRejected(store, log, client_ip, t) ==
    LET s1 == IF client_ip \in DOMAIN store THEN store
              ELSE store @@ (client_ip :> <<>>)
        s2 == [s1 EXCEPT ![client_ip] = Unexpired(s1[client_ip], t)]
        s3 == [s2 EXCEPT ![client_ip] = Append(s2[client_ip], t)]
    IN  IF Len(s2[client_ip]) >= MaxAttempts
        THEN [ok |-> FALSE,
              store |-> s3,
              log |-> LogSecurityAudit(log,
                         SecurityAudit("rate_limit_violation", "high", client_ip,
                                       <<>>, "rate_limit_violation", {}), t)]
        ELSE [ok |-> TRUE, store |-> s3, log |-> log]

\* A rate check that rejects without writing the audit event.
CheckRateLimitSilent(store, log, client_ip, t) ==
    LET s1 == IF client_ip \in DOMAIN store THEN store
              ELSE store @@ (client_ip :> <<>>)
        s2 == [s1 EXCEPT ![client_ip] = Unexpired(s1[client_ip], t)]
    IN  IF Len(s2[client_ip]) >= MaxAttempts
        THEN [ok |-> FALSE, store |-> s2, log |-> log]
        ELSE [ok |-> TRUE,
              store |-> [s2 EXCEPT ![client_ip] = Append(s2[client_ip], t)],
              log |-> log]

\* A rate check that keeps one count for all clients: an admitted attempt is
\* recorded in every client's window.
CheckRateLimitShared(store, log, client_ip, t) ==
    LET s1 == [k \in Clients |->
                  IF k \in DOMAIN store THEN Unexpired(store[k], t) ELSE <<>>]
    IN  IF Len(s1[client_ip]) >= MaxAttempts
        THEN [ok |-> FALSE,
              store |-> s1,
              log |-> LogSecurityAudit(log,
                         SecurityAudit("rate_limit_violation", "high", client_ip,
                                       <<>>, "rate_limit_violation", {}), t)]
        ELSE [ok |-> TRUE,
              store |-> [k \in Clients |-> Append(s1[k], t)],
              log |-> log]

\* A rate check that never prunes: attempts older than the hour keep counting.
CheckRateLimitNeverExpires(store, log, client_ip, t) ==
    LET s1 == IF client_ip \in DOMAIN store THEN store
              ELSE store @@ (client_ip :> <<>>)
    IN  IF Len(s1[client_ip]) >= MaxAttempts
        THEN [ok |-> FALSE,
              store |-> s1,
              log |-> LogSecurityAudit(log,
                         SecurityAudit("rate_limit_violation", "high", client_ip,
                                       <<>>, "rate_limit_violation", {}), t)]
        ELSE [ok |-> TRUE,
              store |-> [s1 EXCEPT ![client_ip] = Append(s1[client_ip], t)],
              log |-> log]

\* Returns the verdict with the store and the log as the call leaves them.
CheckRateLimit(store, log, client_ip, t) ==
    LET s1 == IF client_ip \in DOMAIN store THEN store
              ELSE store @@ (client_ip :> <<>>)
        s2 == [s1 EXCEPT ![client_ip] = Unexpired(s1[client_ip], t)]
    IN  IF Len(s2[client_ip]) >= MaxAttempts
        THEN [ok |-> FALSE,
              store |-> s2,
              log |-> LogSecurityAudit(log,
                         SecurityAudit("rate_limit_violation", "high", client_ip,
                                       <<>>, "rate_limit_violation", {}), t)]
        ELSE [ok |-> TRUE,
              store |-> [s2 EXCEPT ![client_ip] = Append(s2[client_ip], t)],
              log |-> log]

(***************************************************************************)
(* SecurityService: validation stages and score.                           *)
(* A stage returns raised = TRUE when an exception leaves it.              *)
(***************************************************************************)
\* An input validation whose severity for one rejection depends on when the
\* call is made.
ValidateInputTimeDependent(log, subdomain_name, t) ==
    IF Len(subdomain_name) < MinLen \/ Len(subdomain_name) > MaxLen
    THEN [raised |-> FALSE, log |-> log,
          result |-> [valid |-> FALSE,
                      error |-> "Subdomain must be between 3 and 63 characters.",
                      security_level |-> IF t >= 1 THEN "high" ELSE "medium"]]
    ELSE IF ~FormatMatch(subdomain_name)
    THEN [raised |-> FALSE, log |-> log,
          result |-> [valid |-> FALSE,
                      error |-> "Subdomain must contain only lowercase letters, numbers, and hyphens.",
                      security_level |-> "medium"]]
    ELSE IF ContainsAny(Lower(subdomain_name), suspicious_chars)
    THEN [raised |-> TRUE, log |-> log]
    ELSE [raised |-> FALSE, log |-> log, result |-> [valid |-> TRUE]]

\* The length stage with its comparisons made inclusive: lengths 3 and 63 are
\* turned away as well.
ValidateInputLengthInclusive(log, subdomain_name, t) ==
    IF Len(subdomain_name) <= MinLen \/ Len(subdomain_name) >= MaxLen
    THEN [raised |-> FALSE, log |-> log,
          result |-> [valid |-> FALSE,
                      error |-> "Subdomain must be between 3 and 63 characters.",
                      security_level |-> "medium"]]
    ELSE IF ~FormatMatch(subdomain_name)
    THEN [raised |-> FALSE, log |-> log,
          result |-> [valid |-> FALSE,
                      error |-> "Subdomain must contain only lowercase letters, numbers, and hyphens.",
                      security_level |-> "medium"]]
    ELSE IF ContainsAny(Lower(subdomain_name), suspicious_chars)
    THEN [raised |-> TRUE, log |-> log]
    ELSE [raised |-> FALSE, log |-> log, result |-> [valid |-> TRUE]]

ValidateInput(log, subdomain_name, t) ==
    IF Len(subdomain_name) < MinLen \/ Len(subdomain_name) > MaxLen
    THEN [raised |-> FALSE, log |-> log,
          result |-> [valid |-> FALSE,
                      error |-> "Subdomain must be between 3 and 63 characters.",
                      security_level |-> "medium"]]
    ELSE IF ~FormatMatch(subdomain_name)
    THEN [raised |-> FALSE, log |-> log,
          result |-> [valid |-> FALSE,
                      error |-> "Subdomain must contain only lowercase letters, numbers, and hyphens.",
                      security_level |-> "medium"]]
    ELSE IF ContainsAny(Lower(subdomain_name), suspicious_chars)
    THEN LET audit == SecurityAudit("suspicious_input", "high", NoArg,
                                    subdomain_name, "xss_attempt", {})
         IN  IF audit.raised
             THEN [raised |-> TRUE, log |-> log]
             ELSE [raised |-> FALSE, log |-> LogSecurityAudit(log, audit, t),
                   result |-> [valid |-> FALSE,
                               error |-> "Subdomain contains suspicious characters.",
                               security_level |-> "high",
                               threat_detected |-> TRUE]]
    ELSE [raised |-> FALSE, log |-> log, result |-> [valid |-> TRUE]]

CheckBlockedPatterns(log, subdomain_name, t) ==
    IF ContainsAny(Lower(subdomain_name), blocked_patterns)
    THEN LET audit == SecurityAudit("blocked_pattern", "medium", NoArg,
                                    subdomain_name, "None", {})
         IN  IF audit.raised
             THEN [raised |-> TRUE, log |-> log]
             ELSE [raised |-> FALSE, log |-> LogSecurityAudit(log, audit, t),
                   found |-> TRUE]
    ELSE [raised |-> FALSE, log |-> log, found |-> FALSE]

DetectHomographAttack(log, subdomain_name, t) ==
    IF \E k \in 1..Len(suspicious_unicode) :
           \E i \in 1..Len(subdomain_name) : subdomain_name[i] = suspicious_unicode[k]
    THEN LET audit == SecurityAudit("homograph_attack", "high", NoArg,
                                    subdomain_name, "phishing_attempt", {})
         IN  IF audit.raised
             THEN [raised |-> TRUE, log |-> log]
             ELSE [raised |-> FALSE, log |-> LogSecurityAudit(log, audit, t),
                   found |-> TRUE]
    ELSE [raised |-> FALSE, log |-> log, found |-> FALSE]

\* The `for pattern in ['test', 'demo', 'temp', 'tmp']` loop: 20 per pattern
\* that occurs in the name.
LowEffortWords ==
    << <<"t", "e", "s", "t">>, <<"d", "e", "m", "o">>,
       <<"t", "e", "m", "p">>, <<"t", "m", "p">> >>

Max(a, b) == IF a >= b THEN a ELSE b

\* A score that depends on what the service has logged so far.
CalculateSecurityScoreStateful(subdomain_name) ==
    Max(0, 100 - 5 * Len(security_audit_log))

CalculateSecurityScore(subdomain_name) ==
    LET p1 == IF Len(subdomain_name) < 5 THEN 10 ELSE 0
        p2 == IF \E i \in 1..Len(subdomain_name) : subdomain_name[i] \in Digit
              THEN 0 ELSE 5
        p3 == IF CountChar(subdomain_name, "-") > 2 THEN 15 ELSE 0
        p4 == 20 * Cardinality({k \in 1..Len(LowEffortWords) :
                                   Contains(subdomain_name, LowEffortWords[k])})
    IN  Max(0, 100 - p1 - p2 - p3 - p4)

GetSecurityLevel(score) ==
    IF score >= 80 THEN "low"
    ELSE IF score >= 60 THEN "medium"
    ELSE IF score >= 40 THEN "high"
    ELSE "critical"

GetSecurityRecommendations(score) ==
    (IF score < 80 THEN <<"Consider using a more complex subdomain name">> ELSE <<>>)
    \o (IF score < 60 THEN <<"Avoid using common words or patterns">> ELSE <<>>)
    \o (IF score < 40 THEN <<"Security review recommended before deployment">> ELSE <<>>)

(***************************************************************************)
(* SecurityService.validate_subdomain_security                             *)
(* `gates` lists the stages the call ran, in the order it ran them;        *)
(* `rate_ok` is what _check_rate_limit returned.                           *)
(***************************************************************************)
\* What the caller would be left with if the `except Exception` clause at
\* line 133 were not there: the exception itself, no result value.
EscapedException == [raised |-> TRUE, exc |-> "TypeError"]

\* An answer that reports a threat and accepts the name all the same.
ThreatButValid ==
    [valid |-> TRUE,
     security_score |-> 100,
     security_level |-> "low",
     recommendations |-> <<>>,
     threat_detected |-> TRUE]

\* What the `except Exception` clause at line 133 returns.
ValidationFailedResult ==
    [valid |-> FALSE,
     error |-> "Security validation failed.",
     security_level |-> "critical",
     threat_detected |-> TRUE]

\* A validation that gives the rate-limit slot back when the name is rejected
\* by a validation stage.
ValidateRefundsSlot(store, log, subdomain_name, client_ip, t) ==
    LET rl == CheckRateLimit(store, log, client_ip, t)
        refund == [rl.store EXCEPT ![client_ip] = SubSeq(@, 1, Len(@) - 1)]
        vi == ValidateInput(rl.log, subdomain_name, t)
        bp == CheckBlockedPatterns(vi.log, subdomain_name, t)
        ha == DetectHomographAttack(bp.log, subdomain_name, t)
        security_score == CalculateSecurityScore(subdomain_name)
        audit == SecurityAudit("subdomain_validation", "low", client_ip,
                               subdomain_name, "None",
                               {<<"security_score", security_score>>})
    IN  IF ~rl.ok
        THEN [store |-> rl.store, log |-> rl.log, rate_ok |-> FALSE,
              gates |-> <<"rate_limit">>,
              result |-> [valid |-> FALSE,
                          error |-> "Rate limit exceeded. Please try again later.",
                          security_level |-> "critical",
                          threat_detected |-> TRUE]]
        ELSE IF vi.raised
        THEN [store |-> refund, log |-> vi.log, rate_ok |-> TRUE,
              gates |-> <<"rate_limit", "validate_input">>,
              result |-> ValidationFailedResult]
        ELSE IF ~vi.result.valid
        THEN [store |-> refund, log |-> vi.log, rate_ok |-> TRUE,
              gates |-> <<"rate_limit", "validate_input">>,
              result |-> vi.result]
        ELSE IF bp.raised
        THEN [store |-> refund, log |-> bp.log, rate_ok |-> TRUE,
              gates |-> <<"rate_limit", "validate_input", "blocked_patterns">>,
              result |-> ValidationFailedResult]
        ELSE IF bp.found
        THEN [store |-> refund, log |-> bp.log, rate_ok |-> TRUE,
              gates |-> <<"rate_limit", "validate_input", "blocked_patterns">>,
              result |-> [valid |-> FALSE,
                          error |-> "Subdomain name contains blocked patterns.",
                          security_level |-> "high",
                          threat_detected |-> TRUE]]
        ELSE IF ha.raised
        THEN [store |-> refund, log |-> ha.log, rate_ok |-> TRUE,
              gates |-> <<"rate_limit", "validate_input", "blocked_patterns",
                          "homograph">>,
              result |-> ValidationFailedResult]
        ELSE IF ha.found
        THEN [store |-> refund, log |-> ha.log, rate_ok |-> TRUE,
              gates |-> <<"rate_limit", "validate_input", "blocked_patterns",
                          "homograph">>,
              result |-> [valid |-> FALSE,
                          error |-> "Subdomain name contains suspicious characters.",
                          security_level |-> "high",
                          threat_detected |-> TRUE]]
        ELSE [store |-> rl.store,
              log |-> LogSecurityAudit(ha.log, audit, t),
              rate_ok |-> TRUE,
              gates |-> <<"rate_limit", "validate_input", "blocked_patterns",
                          "homograph", "score">>,
              result |-> [valid |-> TRUE,
                          security_score |-> security_score,
                          security_level |-> GetSecurityLevel(security_score),
                          recommendations |-> GetSecurityRecommendations(security_score)]]

ValidateSubdomainSecurity(store, log, subdomain_name, client_ip, t) ==
    LET rl == CheckRateLimit(store, log, client_ip, t)
        vi == ValidateInput(rl.log, subdomain_name, t)
        bp == CheckBlockedPatterns(vi.log, subdomain_name, t)
        ha == DetectHomographAttack(bp.log, subdomain_name, t)
        security_score == CalculateSecurityScore(subdomain_name)
        audit == SecurityAudit("subdomain_validation", "low", client_ip,
                               subdomain_name, "None",
                               {<<"security_score", security_score>>})
    IN  IF ~rl.ok
        THEN [store |-> rl.store, log |-> rl.log, rate_ok |-> FALSE,
              gates |-> <<"rate_limit">>,
              result |-> [valid |-> FALSE,
                          error |-> "Rate limit exceeded. Please try again later.",
                          security_level |-> "critical",
                          threat_detected |-> TRUE]]
        ELSE IF vi.raised
        THEN [store |-> rl.store, log |-> vi.log, rate_ok |-> TRUE,
              gates |-> <<"rate_limit", "validate_input">>,
              result |-> ValidationFailedResult]
        ELSE IF ~vi.result.valid
        THEN [store |-> rl.store, log |-> vi.log, rate_ok |-> TRUE,
              gates |-> <<"rate_limit", "validate_input">>,
              result |-> vi.result]
        ELSE IF bp.raised
        THEN [store |-> rl.store, log |-> bp.log, rate_ok |-> TRUE,
              gates |-> <<"rate_limit", "validate_input", "blocked_patterns">>,
              result |-> ValidationFailedResult]
        ELSE IF bp.found
        THEN [store |-> rl.store, log |-> bp.log, rate_ok |-> TRUE,
              gates |-> <<"rate_limit", "validate_input", "blocked_patterns">>,
              result |-> [valid |-> FALSE,
                          error |-> "Subdomain name contains blocked patterns.",
                          security_level |-> "high",
                          threat_detected |-> TRUE]]
        ELSE IF ha.raised
        THEN [store |-> rl.store, log |-> ha.log, rate_ok |-> TRUE,
              gates |-> <<"rate_limit", "validate_input", "blocked_patterns",
                          "homograph">>,
              result |-> ValidationFailedResult]
        ELSE IF ha.found
        THEN [store |-> rl.store, log |-> ha.log, rate_ok |-> TRUE,
              gates |-> <<"rate_limit", "validate_input", "blocked_patterns",
                          "homograph">>,
              result |-> [valid |-> FALSE,
                          error |-> "Subdomain name contains suspicious characters.",
                          security_level |-> "high",
                          threat_detected |-> TRUE]]
        ELSE [store |-> rl.store,
              log |-> LogSecurityAudit(ha.log, audit, t),
              rate_ok |-> TRUE,
              gates |-> <<"rate_limit", "validate_input", "blocked_patterns",
                          "homograph", "score">>,
              result |-> [valid |-> TRUE,
                          security_score |-> security_score,
                          security_level |-> GetSecurityLevel(security_score),
                          recommendations |-> GetSecurityRecommendations(security_score)]]

(***************************************************************************)
(* SecurityService.verify_wildcard_ssl_security                            *)
(***************************************************************************)
\* _get_certificate_info: the simulated certificate.
GetCertificateInfo(domain) ==
    [valid |-> TRUE, days_until_expiry |-> 45, cipher_strength |-> 256,
     san_valid |-> TRUE, weak_protocols |-> <<>>]

VerifyWildcardSSLSecurity(log, domain, t) ==
    LET cert_info == GetCertificateInfo(domain)
        security_checks ==
            [certificate_valid |-> cert_info.valid,
             expires_soon |-> cert_info.days_until_expiry < 30,
             strong_cipher |-> cert_info.cipher_strength >= 128,
             proper_san |-> cert_info.san_valid,
             no_weak_protocols |-> cert_info.weak_protocols = <<>>]
        passed == Cardinality({k \in DOMAIN security_checks : security_checks[k]})
        security_score == (passed * 100) \div Cardinality(DOMAIN security_checks)
        audit == SecurityAudit("ssl_verification", GetSecurityLevel(security_score),
                               NoArg, <<>>, "None",
                               {<<"security_score", security_score>>})
    IN  IF audit.raised
        THEN [log |-> log,
              result |-> [secure |-> FALSE, error |-> audit.exc]]
        ELSE [log |-> LogSecurityAudit(log, audit, t),
              result |-> [secure |-> security_score >= 80,
                          security_score |-> security_score,
                          certificate_info |-> cert_info,
                          security_checks |-> security_checks]]

(***************************************************************************)
(* SecurityService.get_security_report                                     *)
(***************************************************************************)
\* A summary that also counts the events that carry no threat type.
GetThreatSummaryCountsNone(log) ==
    LET types == {log[i].threat_type : i \in 1..Len(log)}
    IN  [ty \in types |->
            Cardinality({i \in 1..Len(log) : log[i].threat_type = ty})]

\* _get_threat_summary: threat type -> number of events carrying it.
GetThreatSummary(log) ==
    LET types == {log[i].threat_type : i \in 1..Len(log)} \ {"None"}
    IN  [ty \in types |->
            Cardinality({i \in 1..Len(log) : log[i].threat_type = ty})]

SecurityReport(log) ==
    LET critical_events ==
            Cardinality({i \in 1..Len(log) : log[i].severity = "critical"})
        high_events ==
            Cardinality({i \in 1..Len(log) : log[i].severity = "high"})
    IN  [total_events |-> Len(log),
         critical_events |-> critical_events,
         high_events |-> high_events,
         security_score |-> Max(0, 100 - critical_events * 20 - high_events * 10),
         recent_events |-> SubSeq(log, Max(1, Len(log) - 9), Len(log)),
         threat_summary |-> GetThreatSummary(log)]

(***************************************************************************)
(* SecureDeploymentService                                                 *)
(***************************************************************************)
\* re.sub(r'[^a-z0-9]', '', business_name.lower())
CleanName(business_name) == SelectSeq(Lower(business_name), LAMBDA c : c \in AlNum)

\* _generate_secure_subdomain.  Line 129 reads security_service.secrets;
\* security_service is the SecurityService instance imported at line 13 and
\* `secrets` is a module imported by security_service.py, not an attribute
\* of that instance, so the line raises AttributeError for every input and
\* no name is ever returned.
GenerateSecureSubdomain(business_name, registry) ==
    LET clean_name == CleanName(business_name)
    IN  [raised |-> TRUE, exc |-> "AttributeError", clean_name |-> clean_name]

\* A provisioning that reports success without having run any gate.
CreateSecureSubdomainSkipsGates(store, log, registry, project_id, business_name, client_ip, t) ==
    [store |-> store, log |-> log, registry |-> registry,
     gates |-> <<>>,
     result |-> [success |-> TRUE,
                 error |-> "",
                 security_level |-> "low"]]

\* create_secure_subdomain.  The exception of line 41 is caught at line 115;
\* lines 43 to 113 are reached by no call.
CreateSecureSubdomain(store, log, registry, project_id, business_name, client_ip, t) ==
    LET gen == GenerateSecureSubdomain(business_name, registry)
    IN  CASE gen.raised ->
             [store |-> store, log |-> log, registry |-> registry,
              gates |-> <<>>,
              result |-> [success |-> FALSE,
                          error |-> "Deployment failed: AttributeError",
                          security_level |-> "critical"]]

\* revoke_subdomain.  Line 370 reads security_service.SecurityAudit, which
\* the instance does not have either: the AttributeError is caught at line
\* 387, before the `del` of line 380.
\* A revocation that reports success for a name the registry does not hold.
RevokeSubdomainAbsentSucceeds(log, registry, subdomain_name, client_ip, t) ==
    IF subdomain_name \notin DOMAIN registry
    THEN [log |-> log, registry |-> registry,
          result |-> [success |-> TRUE, message |-> "revoked successfully"]]
    ELSE [log |-> log, registry |-> registry,
          result |-> [success |-> FALSE,
                      error |-> "Revocation failed: AttributeError"]]

RevokeSubdomain(log, registry, subdomain_name, client_ip, t) ==
    IF subdomain_name \notin DOMAIN registry
    THEN [log |-> log, registry |-> registry,
          result |-> [success |-> FALSE, error |-> "Subdomain not found"]]
    ELSE [log |-> log, registry |-> registry,
          result |-> [success |-> FALSE,
                      error |-> "Revocation failed: AttributeError"]]

\* get_deployment_status
GetDeploymentStatus(log, registry, subdomain_name, t) ==
    IF subdomain_name \notin DOMAIN registry
    THEN [log |-> log,
          result |-> [exists |-> FALSE, error |-> "Subdomain not found"]]
    ELSE LET ssl == VerifyWildcardSSLSecurity(log, <<"webai.studio">>, t)
         IN  [log |-> ssl.log,
              result |-> [exists |-> TRUE,
                          subdomain |-> subdomain_name,
                          security_score |-> registry[subdomain_name].security_score,
                          ssl_status |-> ssl.result,
                          security_headers |-> registry[subdomain_name].security_headers]]

\* _get_security_alerts: whether the ssl_expiration alert is raised, and the
\* names that get a low_security_score alert.
GetSecurityAlerts(log, registry, t) ==
    LET ssl == VerifyWildcardSSLSecurity(log, <<"webai.studio">>, t)
        days == IF "certificate_info" \in DOMAIN ssl.result
                THEN ssl.result.certificate_info.days_until_expiry
                ELSE 0
    IN  [log |-> ssl.log,
         alerts |-> [ssl_expiration |-> days < 30,
                     low_security_score |->
                         {n \in DOMAIN registry : registry[n].security_score < 60}]]

\* SecureDeploymentService.get_security_report
DeploymentSecurityReport(log, registry, t) ==
    LET al == GetSecurityAlerts(log, registry, t)
    IN  [log |-> al.log,
         result |-> [total_subdomains |-> Cardinality(DOMAIN registry),
                     ssl_configured_count |->
                         Cardinality({n \in DOMAIN registry : registry[n].ssl_configured}),
                     security_alerts |-> al.alerts]]

(***************************************************************************)
(* Inputs.                                                                 *)
(***************************************************************************)
\* One name per way through validate_subdomain_security.
NameShort == <<"a", "b">>
NameUpper == <<"A", "b", "c">>
NameSuspicious == <<"a", "-", "-", "b">>
NameBlocked == <<"a", "p", "i">>
NameGood == <<"a", "-", "b">>
Names == {NameShort, NameUpper, NameSuspicious, NameBlocked, NameGood}

\* Names asked for by revoke and status requests.
LookupNames == {NameGood}

\* The names the clients of SpecRate ask for.
RateNames == {NameShort}

BusinessNames == {<<"A", "c", "m", "e", " ", "9">>, <<"Q", "9">>}
Projects == {"p1"}

(***************************************************************************)
(* Initial state: the two module-level singletons as constructed.          *)
(***************************************************************************)
Init ==
    /\ now = 0
    /\ rate_limit_store = <<>>
    /\ security_audit_log = <<>>
    /\ active_subdomains = <<>>
    /\ last = [op |-> "none"]
    /\ checks = [c \in Clients |-> <<>>]

(***************************************************************************)
(* Actions: the clock, and one per endpoint.                               *)
(***************************************************************************)
Tick ==
    /\ now < MaxTime
    /\ now' = now + 1
    /\ UNCHANGED <<rate_limit_store, security_audit_log, active_subdomains, last, checks>>

\* Number of rate checks made so far.
RECURSIVE SumLen(_, _)
SumLen(f, S) ==
    IF S = {} THEN 0
    ELSE LET x == CHOOSE y \in S : TRUE
         IN  Len(f[x]) + SumLen(f, S \ {x})
TotalChecks == SumLen(checks, Clients)

\* POST /validate-subdomain
Validate(c, n) ==
    LET r == ValidateSubdomainSecurity(rate_limit_store, security_audit_log, n, c, now)
    IN  /\ TotalChecks < MaxChecks
        /\ Len(r.log) <= MaxLog
        /\ rate_limit_store' = r.store
        /\ security_audit_log' = r.log
        /\ checks' = [checks EXCEPT ![c] = Append(@, [t |-> now, ok |-> r.rate_ok])]
        /\ last' = [op |-> "validate", client |-> c, name |-> n,
                    gates |-> r.gates, result |-> r.result]
        /\ UNCHANGED <<now, active_subdomains>>

\* POST /create-subdomain
Provision(c, p, b) ==
    LET r == CreateSecureSubdomain(rate_limit_store, security_audit_log,
                                   active_subdomains, p, b, c, now)
    IN  /\ Len(r.log) <= MaxLog
        /\ rate_limit_store' = r.store
        /\ security_audit_log' = r.log
        /\ active_subdomains' = r.registry
        /\ last' = [op |-> "provision", client |-> c, name |-> b,
                    gates |-> r.gates, result |-> r.result]
        /\ UNCHANGED <<now, checks>>

\* DELETE /revoke/{subdomain_name}
Revoke(c, n) ==
    LET r == RevokeSubdomain(security_audit_log, active_subdomains, n, c, now)
    IN  /\ Len(r.log) <= MaxLog
        /\ security_audit_log' = r.log
        /\ active_subdomains' = r.registry
        /\ last' = [op |-> "revoke", client |-> c, name |-> n, result |-> r.result]
        /\ UNCHANGED <<now, rate_limit_store, checks>>

\* The read-only endpoints.  Each computes its answer from the current state
\* and hands it to the caller; none of them assigns to the services' state
\* (verify_wildcard_ssl_security raises before it logs, see above).

\* GET /status/{subdomain_name}
Status(n) ==
    LET r == GetDeploymentStatus(security_audit_log, active_subdomains, n, now)
    IN  /\ Len(r.log) <= MaxLog
        /\ security_audit_log' = r.log
        /\ UNCHANGED <<now, rate_limit_store, active_subdomains, last, checks>>

\* GET /ssl-status/{domain}
SSLStatus ==
    LET r == VerifyWildcardSSLSecurity(security_audit_log, <<"webai.studio">>, now)
    IN  /\ Len(r.log) <= MaxLog
        /\ security_audit_log' = r.log
        /\ UNCHANGED <<now, rate_limit_store, active_subdomains, last, checks>>

\* GET /security-report: both services' reports.
DeploymentReport ==
    LET r == DeploymentSecurityReport(security_audit_log, active_subdomains, now)
    IN  /\ Len(r.log) <= MaxLog
        /\ SecurityReport(r.log).total_events = Len(r.log)
        /\ security_audit_log' = r.log
        /\ UNCHANGED <<now, rate_limit_store, active_subdomains, last, checks>>

\* GET /audit-log: the last 50 events, their number and the threat summary.
AuditReport ==
    /\ DOMAIN GetThreatSummary(security_audit_log) \subseteq
           {"rate_limit_violation", "xss_attempt", "phishing_attempt"}
    /\ UNCHANGED vars

\* All endpoints, called by one client.
Next ==
    \/ Tick
    \/ \E c \in MainClients, n \in Names : Validate(c, n)
    \/ \E c \in MainClients, p \in Projects, b \in BusinessNames : Provision(c, p, b)
    \/ \E c \in MainClients, n \in LookupNames : Revoke(c, n)
    \/ \E n \in LookupNames : Status(n)
    \/ SSLStatus
    \/ DeploymentReport
    \/ AuditReport

Spec == Init /\ [][Next]_vars

\* The rate limiter under load: validation requests of several clients.
NextRate ==
    \/ Tick
    \/ \E c \in Clients, n \in RateNames : Validate(c, n)

SpecRate == Init /\ [][NextRate]_vars

(***************************************************************************)
(* Properties.                                                             *)
(***************************************************************************)
IsPrefix(a, b) == Len(a) <= Len(b) /\ SubSeq(b, 1, Len(a)) = a

\* The rate checks of history h from number s on start from an empty window:
\* every earlier admitted check is an hour old or more at check s.
FreshAt(h, s) == \A j \in 1..(s - 1) : h[j].ok => h[s].t - h[j].t >= Hour

\* C1: for a fixed client, of any run of rate checks that starts from an empty
\* window and lies within one hour, the first 5 are admitted and the 6th and
\* every later one is rejected; validate_subdomain_security answers a rejected
\* check, and only a rejected check, with the rate-limit error.
C1_FiveAdmittedThenRejected ==
    /\ \A c \in Clients :
         LET h == checks[c]
         IN  \A s \in 1..Len(h) : \A i \in s..Len(h) :
                 (FreshAt(h, s) /\ h[i].t - h[s].t < Hour)
                     => (h[i].ok <=> (i - s + 1 <= 5))
    /\ last.op = "validate" =>
         LET h == checks[last.client]
         IN  ~h[Len(h)].ok <=>
                 last.result.error = "Rate limit exceeded. Please try again later."

\* A client has made 7 checks within one hour: 5 admitted, then 2 rejected.
C1_Witness ==
    \E c \in Clients :
        /\ Len(checks[c]) >= 7
        /\ checks[c][7].t - checks[c][1].t < Hour
        /\ \A i \in 1..5 : checks[c][i].ok
        /\ ~checks[c][6].ok
        /\ ~checks[c][7].ok
        /\ last.op = "validate" /\ last.client = c /\ ~last.result.valid

RejectingStage(name) ==
    IF Len(name) < MinLen \/ Len(name) > MaxLen THEN "length"
    ELSE IF ~FormatMatch(name) THEN "format"
    ELSE IF ContainsAny(Lower(name), suspicious_chars) THEN "suspicious_input"
    ELSE IF ContainsAny(Lower(name), blocked_patterns) THEN "blocked_pattern"
    ELSE IF \E i \in 1..Len(name) : \E k \in 1..Len(suspicious_unicode) :
                name[i] = suspicious_unicode[k] THEN "homograph_attack"
    ELSE "none"

\* Severity and threat type that go with each rejecting gate.
GateSeverity(g) ==
    IF g \in {"length", "format", "blocked_pattern"} THEN "medium" ELSE "high"
GateThreat(g) ==
    CASE g = "rate_limit" -> "rate_limit_violation"
      [] g = "suspicious_input" -> "xss_attempt"
      [] g = "homograph_attack" -> "phishing_attempt"
      [] OTHER -> "None"

\* C6: every validation request that ends in a rejection appends exactly one
\* audit event before it returns, and the event carries the severity and the
\* threat type of the gate that rejected.
C6_RejectionAppendsOneEvent ==
    [][(checks' # checks /\ ~last'.result.valid) =>
          LET h == checks'[last'.client]
              gate == IF ~h[Len(h)].ok THEN "rate_limit"
                      ELSE RejectingStage(last'.name)
              n == Len(security_audit_log)
          IN  /\ Len(security_audit_log') = n + 1
              /\ SubSeq(security_audit_log', 1, n) = security_audit_log
              /\ security_audit_log'[n + 1].severity = GateSeverity(gate)
              /\ security_audit_log'[n + 1].threat_type = GateThreat(gate)]_vars

\* The order of the gates of the provisioning pipeline.
PipelineOrder ==
    <<"rate_limit", "validate_input", "blocked_patterns", "homograph",
      "collision", "score", "configure", "insert">>

\* C7: a provisioning request runs the gates in the order rate limit, input
\* validation, collision check, scoring, configuration, insert, starting with
\* the rate limiter, and runs none after the first that fails.
C7_GatesInOrder ==
    last.op = "provision" =>
        /\ last.gates # <<>>
        /\ IsPrefix(last.gates, PipelineOrder)
        /\ ~last.result.success => last.gates # PipelineOrder

\* A name passes every stage of validation.
NamePasses(name) == RejectingStage(name) = "none"

\* Number of secure_deployment events of severity low in a log.
DeploymentEvents(log) ==
    Cardinality({i \in 1..Len(log) :
        /\ log[i].event_type = "secure_deployment"
        /\ log[i].severity = "low"})

\* C8: a provisioning request from a client under the rate limit, for a name
\* that passes every validation stage and is not in the registry, ends
\* Completed: the caller gets success=true, the registry has gained a record,
\* and exactly one secure_deployment event of severity low has been appended
\* for the request.
C8_GoodRequestCompletes ==
    [][(/\ last' # last
        /\ last'.op = "provision"
        /\ NamePasses(CleanName(last'.name))
        /\ CleanName(last'.name) \notin DOMAIN active_subdomains
        /\ (last'.client \in DOMAIN rate_limit_store =>
               Len(Unexpired(rate_limit_store[last'.client], now)) < 5))
       => /\ last'.result.success
          /\ DOMAIN active_subdomains' \ DOMAIN active_subdomains # {}
          /\ DeploymentEvents(security_audit_log') =
                 DeploymentEvents(security_audit_log) + 1]_vars

\* C10: the audit log is append-only: over every step of every endpoint the
\* log before the step is a prefix of the log after it.
C10_AuditLogAppendOnly ==
    [][IsPrefix(security_audit_log, security_audit_log')]_vars

\* The log holds a validation event followed by a rate-limit event, and a
\* provisioning request has been answered since.
C10_Witness ==
    /\ Len(security_audit_log) >= 2
    /\ security_audit_log[1].event_type = "subdomain_validation"
    /\ security_audit_log[2].event_type = "rate_limit_violation"
    /\ last.op = "provision"

SecurityLevels == {"low", "medium", "high", "critical"}

\* C12: validate_subdomain_security and create_secure_subdomain never let an
\* exception escape: every call hands back a result value, and every
\* rejection among them carries a non-empty error text and a severity level.
C12_RejectionsAreValues ==
    last.op \in {"validate", "provision"} =>
        /\ DOMAIN last.result \cap {"valid", "success"} # {}
        /\ "raised" \notin DOMAIN last.result
        /\ (IF last.op = "validate" THEN ~last.result.valid
                                    ELSE ~last.result.success)
              => /\ {"error", "security_level"} \subseteq DOMAIN last.result
                 /\ last.result.error # ""
                 /\ last.result.security_level \in SecurityLevels

\* A name with a suspicious token has been turned away through the except
\* clause, after an earlier request was turned away by the rate limiter.
C12_Witness ==
    /\ last.op = "validate"
    /\ last.name = NameSuspicious
    /\ last.result = ValidationFailedResult
    /\ \E i \in 1..Len(security_audit_log) :
           security_audit_log[i].event_type = "rate_limit_violation"

\* The answer of request l is the one an `except Exception` clause builds.
InternalFault(l) ==
    /\ l.op \in {"validate", "provision"}
    /\ "error" \in DOMAIN l.result
    /\ l.result.error \in {"Security validation failed.",
                           "Deployment failed: AttributeError"}

\* C14: a validation or provisioning request that ends with an internal
\* fault appends an audit event describing the fault before it returns.
C14_FaultIsAudited ==
    [][((last' # last \/ checks' # checks) /\ InternalFault(last'))
          => /\ Len(security_audit_log') = Len(security_audit_log) + 1
             /\ IsPrefix(security_audit_log, security_audit_log')]_vars

\* C15: a rejected rate check adds no timestamp to the client's window: after
\* the call the window holds exactly the unexpired timestamps it held before.
C15_RejectedCheckNotRecorded ==
    [][\A c \in Clients :
          (/\ Len(checks'[c]) = Len(checks[c]) + 1
           /\ ~checks'[c][Len(checks'[c])].ok)
             => /\ c \in DOMAIN rate_limit_store
                /\ rate_limit_store'[c] = Unexpired(rate_limit_store[c], now)
                /\ Len(rate_limit_store'[c]) = MaxAttempts]_vars

\* A client's latest check was rejected; its window holds the five admitted
\* timestamps of the current hour and an older admitted one has expired.
C15_Witness ==
    \E c \in Clients :
        LET h == checks[c]
        IN  /\ Len(h) >= 7
            /\ ~h[Len(h)].ok
            /\ c \in DOMAIN rate_limit_store
            /\ Len(rate_limit_store[c]) = 5
            /\ \A i \in 1..5 : rate_limit_store[c][i] = h[Len(h)].t
            /\ h[1].ok /\ h[1].t < h[Len(h)].t

\* Number of rate_limit_violation events in a log.
RateEvents(log) ==
    Cardinality({i \in 1..Len(log) : log[i].event_type = "rate_limit_violation"})

\* C16: a rate-limit rejection appends exactly one event, of type
\* rate_limit_violation and severity high, for the rejected client; an
\* admitted rate check appends no rate_limit_violation event.
C16_RejectionLogsViolation ==
    [][checks' # checks =>
          LET c == last'.client
              h == checks'[c]
              n == Len(security_audit_log)
          IN  IF ~h[Len(h)].ok
              THEN /\ Len(security_audit_log') = n + 1
                   /\ IsPrefix(security_audit_log, security_audit_log')
                   /\ security_audit_log'[n + 1].event_type = "rate_limit_violation"
                   /\ security_audit_log'[n + 1].severity = "high"
                   /\ security_audit_log'[n + 1].client_ip = c
                   /\ security_audit_log'[n + 1].threat_type = "rate_limit_violation"
              ELSE RateEvents(security_audit_log') = RateEvents(security_audit_log)]_vars

\* One client has been rejected once and the log holds its one event; the
\* other client has been admitted and has none.
C16_Witness ==
    \E c \in Clients : \E d \in Clients \ {c} :
        /\ Len(security_audit_log) = 1
        /\ security_audit_log[1].event_type = "rate_limit_violation"
        /\ security_audit_log[1].severity = "high"
        /\ security_audit_log[1].client_ip = c
        /\ Cardinality({i \in 1..Len(checks[c]) : ~checks[c][i].ok}) = 1
        /\ Len(checks[d]) >= 1
        /\ \A i \in 1..Len(checks[d]) : checks[d][i].ok

(***************************************************************************)
(* The validator alone, on names chosen to reach every stage and both      *)
(* length boundaries.                                                      *)
(***************************************************************************)
\* Too short and with characters outside the format.
NameShortBad == <<"A", "!">>
\* Format-valid, with a suspicious token ("--") and a blocked word ("api").
NameBoth == <<"a", "p", "i", "-", "-", "x">>
\* Starts with the Cyrillic look-alike of "a".
NameHomograph == <<"U+0430", "b", "c">>
\* The longest name the length stage lets through, and the next longer one.
Name63 == [i \in 1..MaxLen |-> "x"]
Name64 == [i \in 1..(MaxLen + 1) |-> "x"]
\* Length 63 with a character outside the format.
Name63Bad == [i \in 1..MaxLen |-> IF i = MaxLen THEN "!" ELSE "x"]

StageNames ==
    Names \cup {NameShortBad, NameBoth, NameHomograph, Name63, Name64, Name63Bad}

NextValidate ==
    \E c \in MainClients, n \in StageNames : Validate(c, n)

SpecValidate == Init /\ [][NextValidate]_vars

\* The error text that goes with the rejection of each stage.
StageError(stage) ==
    CASE stage = "length" -> "Subdomain must be between 3 and 63 characters."
      [] stage = "format" ->
             "Subdomain must contain only lowercase letters, numbers, and hyphens."
      [] stage = "suspicious_input" -> "Subdomain contains suspicious characters."
      [] stage = "blocked_pattern" -> "Subdomain name contains blocked patterns."
      [] stage = "homograph_attack" -> "Subdomain name contains suspicious characters."

\* The last request is a validation whose rate check was admitted.
LastValidated ==
    /\ last.op = "validate"
    /\ checks[last.client][Len(checks[last.client])].ok

\* C17: the stages apply in the order length, format, suspicious token,
\* blocked word, homograph, and the rejection returned for a name is the one
\* of the first stage the name fails; a name that fails none is accepted.
C17_FirstFailingStageAnswers ==
    LastValidated =>
        LET stage == RejectingStage(last.name)
        IN  IF stage = "none"
            THEN last.result.valid
            ELSE /\ ~last.result.valid
                 /\ last.result.error = StageError(stage)

\* A name fails no stage other than, possibly, the length stage.
PassesOtherStages(name) ==
    /\ FormatMatch(name)
    /\ ~ContainsAny(Lower(name), suspicious_chars)
    /\ ~ContainsAny(Lower(name), blocked_patterns)
    /\ \A i \in 1..Len(name) : \A k \in 1..Len(suspicious_unicode) :
           name[i] # suspicious_unicode[k]

\* C18: the length stage rejects a name exactly when its length is below 3 or
\* above 63, with severity medium; names of length 3 and 63 that satisfy the
\* other stages are accepted.
C18_LengthBoundaries ==
    LastValidated =>
        LET n == Len(last.name)
            lengthError == /\ ~last.result.valid
                           /\ last.result.error = StageError("length")
        IN  /\ lengthError <=> (n < 3 \/ n > 63)
            /\ lengthError => last.result.security_level = "medium"
            /\ (n \in {3, 63} /\ PassesOtherStages(last.name)) => last.result.valid

\* The log holds the acceptances of a name of length 3 and of one of length
\* 63, and the name of length 64 has just been turned away for its length.
C18_Witness ==
    /\ LastValidated
    /\ last.name = Name64
    /\ last.result.error = StageError("length")
    /\ \E i \in 1..Len(security_audit_log) :
           /\ security_audit_log[i].event_type = "subdomain_validation"
           /\ Len(security_audit_log[i].subdomain) = 3
    /\ \E i \in 1..Len(security_audit_log) :
           /\ security_audit_log[i].event_type = "subdomain_validation"
           /\ Len(security_audit_log[i].subdomain) = 63

\* The log `after` is the log `before` with one event of type ty added.
OneEventAppended(before, after, ty) ==
    /\ Len(after) = Len(before) + 1
    /\ IsPrefix(before, after)
    /\ after[Len(after)].event_type = ty

\* C19: a name that passes the length, format and suspicious-token stages
\* and contains a blocked word is rejected as a blocked-pattern failure with
\* severity medium, and one blocked_pattern audit event is appended.
C19_BlockedWordRejected ==
    [][(/\ checks' # checks
        /\ LastValidated'
        /\ RejectingStage(last'.name) = "blocked_pattern")
          => /\ ~last'.result.valid
             /\ last'.result.error = StageError("blocked_pattern")
             /\ last'.result.security_level = "medium"
             /\ OneEventAppended(security_audit_log, security_audit_log',
                                 "blocked_pattern")]_vars

\* C20: a format-valid name with a suspicious token is rejected at the third
\* stage with threat_detected true and severity high, and exactly one
\* suspicious_input audit event is appended for the request.
C20_SuspiciousTokenRejected ==
    [][(/\ checks' # checks
        /\ LastValidated'
        /\ RejectingStage(last'.name) = "suspicious_input")
          => /\ ~last'.result.valid
             /\ last'.result.error = StageError("suspicious_input")
             /\ last'.result.threat_detected
             /\ last'.result.security_level = "high"
             /\ OneEventAppended(security_audit_log, security_audit_log',
                                 "suspicious_input")]_vars

\* A name holds one of the Cyrillic look-alikes of _detect_homograph_attack.
HasLookAlike(name) ==
    \E i \in 1..Len(name) : \E k \in 1..Len(suspicious_unicode) :
        name[i] = suspicious_unicode[k]

\* C21: a name of legal length that holds a Cyrillic look-alike is rejected
\* as a homograph attack: severity high, threat_detected true, and an audit
\* event of type homograph_attack is appended.
C21_HomographRejected ==
    [][(/\ checks' # checks
        /\ LastValidated'
        /\ Len(last'.name) >= 3 /\ Len(last'.name) <= 63
        /\ HasLookAlike(last'.name))
          => /\ ~last'.result.valid
             /\ last'.result.security_level = "high"
             /\ "threat_detected" \in DOMAIN last'.result
             /\ last'.result.threat_detected
             /\ OneEventAppended(security_audit_log, security_audit_log',
                                 "homograph_attack")]_vars

\* The score an audit event of type subdomain_validation recorded.
LoggedScores(name) ==
    {security_audit_log[i].metadata : i \in
        {j \in 1..Len(security_audit_log) :
            /\ security_audit_log[j].event_type = "subdomain_validation"
            /\ security_audit_log[j].subdomain = name}}

NameDemoTwice ==
    <<"d", "e", "m", "o", "-", "d", "e", "m", "o", "1">>
\* "demo" occurs once.
NameDemo ==
    <<"d", "e", "m", "o", "1">>
\* More than two hyphens.
NameHyphens ==
    <<"a", "-", "b", "-", "c", "-", "d", "1">>
\* No penalty applies.
NameDigits ==
    <<"x", "9", "y", "8", "z">>
\* "demo" twice and no digit.
NameDemoDemo ==
    <<"d", "e", "m", "o", "d", "e", "m", "o">>
\* Three of the low-effort words.
NameThreeWords ==
    <<"t", "m", "p", "-", "t", "e", "m", "p", "-", "d", "e", "m", "o", "9">>
\* Three low-effort words, more than two hyphens, no digit.
NameWorst ==
    <<"t", "m", "p", "-", "t", "e", "m", "p", "-", "d", "e", "m", "o", "-", "x", "-", "y">>

ScoreNames ==
    {NameGood, NameShort, NameUpper, NameDemoTwice, NameDemo, NameHyphens,
     NameDigits, NameDemoDemo, NameThreeWords, NameWorst}

NextScore ==
    \E c \in MainClients, n \in ScoreNames : Validate(c, n)

SpecScore == Init /\ [][NextScore]_vars

\* Number of places of s at which tok occurs.
CountOccurrences(s, tok) ==
    Cardinality({i \in 1..(Len(s) - Len(tok) + 1) :
                    \A j \in 1..Len(tok) : s[i + j - 1] = tok[j]})

\* The score with 20 taken off for every occurrence of a low-effort word.
ScorePerOccurrence(name) ==
    LET b1 == IF Len(name) < 5 THEN 1 ELSE 0
        b2 == IF \E i \in 1..Len(name) : name[i] \in Digit THEN 0 ELSE 1
        b3 == IF CountChar(name, "-") > 2 THEN 1 ELSE 0
        k4 == CountOccurrences(name, <<"t", "e", "s", "t">>)
        k3 == CountOccurrences(name, <<"d", "e", "m", "o">>)
        k2 == CountOccurrences(name, <<"t", "e", "m", "p">>)
        k1 == CountOccurrences(name, <<"t", "m", "p">>)
    IN  Max(0, 100 - 10 * b1 - 5 * b2 - 15 * b3 - 20 * (k1 + k2 + k3 + k4))

\* C23: the score of a name is max(0, 100 - 10*[length < 5] - 5*[no digit]
\* - 15*[more than 2 hyphens] - 20*k), k the total number of occurrences of
\* test, demo, temp and tmp in the name, and lies in 0..100.
C23_ScoreFormula ==
    (last.op = "validate" /\ last.result.valid) =>
        /\ last.result.security_score \in 0..100
        /\ last.result.security_score = ScorePerOccurrence(last.name)

\* The decision POST /validate-subdomain hands to the caller: the fields of
\* the validator's result, with the endpoint's defaults for those it lacks.
ValidateResponse(result) ==
    [valid |-> result.valid,
     security_score |-> IF "security_score" \in DOMAIN result
                        THEN result.security_score ELSE 0,
     security_level |-> IF "security_level" \in DOMAIN result
                        THEN result.security_level ELSE "critical",
     recommendations |-> IF "recommendations" \in DOMAIN result
                         THEN result.recommendations ELSE <<>>,
     threat_detected |-> IF "threat_detected" \in DOMAIN result
                         THEN result.threat_detected ELSE FALSE]

\* The level that goes with a score.
LevelOfScore(score) ==
    CASE score >= 80 -> "low"
      [] score >= 60 /\ score < 80 -> "medium"
      [] score >= 40 /\ score < 60 -> "high"
      [] score < 40 -> "critical"

\* C24: in every decision returned for a validation the level is the one
\* that goes with the decision's score: low from 80, medium from 60, high
\* from 40, critical below.
C24_LevelFromScore ==
    last.op = "validate" =>
        LET d == ValidateResponse(last.result)
        IN  d.security_level = LevelOfScore(d.security_score)

\* C25: no answer of validate_subdomain_security has threat_detected true
\* together with valid true, and no answer of create_secure_subdomain has
\* threat_detected true together with success true.
C25_ThreatImpliesRejected ==
    /\ last.op = "validate" =>
           (ValidateResponse(last.result).threat_detected => ~last.result.valid)
    /\ last.op = "provision" =>
           (("threat_detected" \in DOMAIN last.result /\ last.result.threat_detected)
                => ~last.result.success)

\* A request has been turned away with threat_detected set, after a name
\* was accepted without it.
C25_Witness ==
    /\ last.op = "validate"
    /\ "threat_detected" \in DOMAIN last.result
    /\ last.result.threat_detected
    /\ ~last.result.valid
    /\ \E i \in 1..Len(security_audit_log) :
           security_audit_log[i].event_type = "subdomain_validation"

C28_RevokeAbsentNotFound ==
    [][(/\ last' # last
        /\ last'.op = "revoke"
        /\ last'.name \notin DOMAIN active_subdomains)
          => /\ ~last'.result.success
             /\ last'.result.error = "Subdomain not found"
             /\ active_subdomains' = active_subdomains
             /\ security_audit_log' = security_audit_log]_vars

\* A revocation of a name the registry does not hold has been answered with
\* not found, on a service that has validated a name before.
C28_Witness ==
    /\ last.op = "revoke"
    /\ last.name \notin DOMAIN active_subdomains
    /\ ~last.result.success
    /\ last.result.error = "Subdomain not found"
    /\ Len(security_audit_log) >= 1

\* C33: the alerts of the deployment security report hold a low-score alert
\* for exactly the registry records whose score is below 60, and the SSL
\* expiry alert exactly when the certificate has fewer than 30 days left.
C33_AlertsMatchState ==
    LET alerts == DeploymentSecurityReport(security_audit_log, active_subdomains,
                                           now).result.security_alerts
        cert == GetCertificateInfo(<<"webai.studio">>)
    IN  /\ alerts.low_security_score =
               {n \in DOMAIN active_subdomains :
                   active_subdomains[n].security_score < 60}
        /\ alerts.ssl_expiration <=> cert.days_until_expiry < 30

\* The sum of f over the keys in S.
RECURSIVE SumCounts(_, _)
SumCounts(f, S) ==
    IF S = {} THEN 0
    ELSE LET x == CHOOSE y \in S : TRUE
         IN  f[x] + SumCounts(f, S \ {x})

\* C34: the threat summary maps each threat type to the number of events of
\* the log that carry it: the counts add up to the number of events with a
\* threat type, and a type that no event carries is not in the summary.
C34_ThreatSummaryCounts ==
    LET summary == GetThreatSummary(security_audit_log)
        typed == {i \in 1..Len(security_audit_log) :
                     security_audit_log[i].threat_type # "None"}
    IN  /\ "None" \notin DOMAIN summary
        /\ DOMAIN summary = {security_audit_log[i].threat_type : i \in typed}
        /\ \A ty \in DOMAIN summary :
               /\ summary[ty] >= 1
               /\ summary[ty] = Cardinality({i \in typed :
                                    security_audit_log[i].threat_type = ty})
        /\ SumCounts(summary, DOMAIN summary) = Cardinality(typed)

\* The log holds an event without a threat type and a rate-limit violation;
\* the summary counts the one and leaves the other out.
C34_Witness ==
    /\ Len(security_audit_log) = 2
    /\ \E i \in 1..2 : security_audit_log[i].threat_type = "None"
    /\ DOMAIN GetThreatSummary(security_audit_log) = {"rate_limit_violation"}
    /\ GetThreatSummary(security_audit_log)["rate_limit_violation"] = 1

\* C35: a rate check for one client, admitted or rejected, leaves the window
\* of every other client as it was; and a client is rejected only when five
\* admitted checks of its own lie within the hour before the check.
C35_WindowsIsolated ==
    /\ [](\A b \in Clients :
             LET h == checks[b]
             IN  \A i \in 1..Len(h) :
                     ~h[i].ok =>
                         Cardinality({j \in 1..(i - 1) :
                             h[j].ok /\ h[i].t - h[j].t < Hour}) >= 5)
    /\ [][checks' # checks =>
             \A b \in Clients \ {last'.client} :
                 /\ b \in DOMAIN rate_limit_store' <=> b \in DOMAIN rate_limit_store
                 /\ b \in DOMAIN rate_limit_store =>
                        rate_limit_store'[b] = rate_limit_store[b]]_vars

\* One client has used up its limit and been rejected; the other, checked for
\* the first time after that rejection, was admitted.
C35_Witness ==
    \E c \in Clients : \E d \in Clients \ {c} :
        /\ Len(checks[c]) = 6
        /\ ~checks[c][6].ok
        /\ Len(checks[d]) = 1
        /\ checks[d][1].ok
        /\ last.op = "validate" /\ last.client = d
        /\ Len(rate_limit_store[c]) = 5
        /\ Len(rate_limit_store[d]) = 1

\* The outcome a provisioning request ended with.
ProvisionOutcome(r, gates) ==
    IF r.success THEN "completed"
    ELSE IF gates # <<>> THEN "rejected"
    ELSE "internal_error"

AdmittedInHourBefore(h, i) ==
    Cardinality({j \in 1..(i - 1) : h[j].ok /\ h[i].t - h[j].t < Hour})

\* C37: a check is admitted exactly when fewer than 5 admitted checks of the
\* same client lie within the hour before it.  Rejected checks are not
\* counted, so rejected retries do not postpone readmission, and a client
\* that retries after the clock has moved the old attempts out of the hour is
\* admitted at that retry.
C37_ReadmittedWhenWindowFrees ==
    \A c \in Clients :
        LET h == checks[c]
        IN  /\ \A i \in 1..Len(h) :
                   h[i].ok <=> AdmittedInHourBefore(h, i) < MaxAttempts
            /\ c \in DOMAIN rate_limit_store =>
                   \A k \in 1..Len(rate_limit_store[c]) :
                       \E i \in 1..Len(h) :
                           h[i].ok /\ h[i].t = rate_limit_store[c][k]

\* A client used its five attempts, retried and was rejected, then retried
\* after the clock had advanced and was admitted.
C37_Witness ==
    \E c \in Clients :
        LET h == checks[c]
        IN  /\ Len(h) = 7
            /\ \A i \in 1..5 : h[i].ok
            /\ ~h[6].ok
            /\ h[7].ok
            /\ h[7].t > h[6].t
            /\ Len(rate_limit_store[c]) < MaxAttempts

\* C38: a request that passes the rate gate consumes a slot of its client's
\* window whether validation then accepts or rejects the name; and a request
\* of a client whose window holds five unexpired attempts is answered with
\* the rate-limit rejection whatever name it proposes, consuming no slot.
C38_RejectedRequestConsumesSlot ==
    [][checks' # checks =>
          LET c == last'.client
              before == IF c \in DOMAIN rate_limit_store
                        THEN Unexpired(rate_limit_store[c], now)
                        ELSE <<>>
          IN  /\ Len(before) < MaxAttempts =>
                     /\ LastValidated'
                     /\ rate_limit_store'[c] = Append(before, now)
              /\ Len(before) >= MaxAttempts =>
                     /\ ~last'.result.valid
                     /\ last'.result.error =
                            "Rate limit exceeded. Please try again later."
                     /\ rate_limit_store'[c] = before]_vars

\* Five requests of one client were admitted by the rate gate and rejected
\* by validation (the log holds no validation event), and the sixth, for a
\* name that passes every stage, was rejected as rate-limited.
C38_Witness ==
    /\ last.op = "validate"
    /\ last.name = NameGood
    /\ NamePasses(last.name)
    /\ Len(checks[last.client]) = 6
    /\ \A i \in 1..5 : checks[last.client][i].ok
    /\ ~checks[last.client][6].ok
    /\ last.result.error = "Rate limit exceeded. Please try again later."
    /\ Len(security_audit_log) = 1
    /\ security_audit_log[1].event_type = "rate_limit_violation"

\* SecureDeploymentRequest.business_name: Field(min_length=2, max_length=100).
BusinessMinLen == 2
BusinessMaxLen == 100

\* The words validate_business_name refuses.
suspicious_patterns ==
    << <<"s", "c", "r", "i", "p", "t">>,
       <<"j", "a", "v", "a", "s", "c", "r", "i", "p", "t">>,
       <<"e", "v", "a", "l">>,
       <<"e", "x", "e", "c">>,
       <<"s", "y", "s", "t", "e", "m">>,
       <<"a", "d", "m", "i", "n">>,
       <<"r", "o", "o", "t">>,
       <<"p", "a", "s", "s", "w", "o", "r", "d">>,
       <<"s", "e", "c", "r", "e", "t">> >>

\* str.strip() for the whitespace of the modelled alphabet.
RECURSIVE Strip(_)
Strip(s) ==
    IF s = <<>> THEN s
    ELSE IF s[1] \in {" ", "\n"} THEN Strip(Tail(s))
    ELSE IF s[Len(s)] \in {" ", "\n"} THEN Strip(SubSeq(s, 1, Len(s) - 1))
    ELSE s

\* The request model accepts the business name.
BusinessNameAccepted(v) ==
    /\ Len(v) >= BusinessMinLen
    /\ Len(v) <= BusinessMaxLen
    /\ Len(Strip(v)) >= 2
    /\ ~ContainsAny(Lower(v), suspicious_patterns)

\* C40: for every provisioning request whose business name the API accepts,
\* _generate_secure_subdomain returns a name, and the request is not stopped
\* before or at the validator's length and format stages: the cleaned name the
\* generated name is built on is a well-formed prefix and the request gets
\* past input validation.
C40_GeneratedNamePassesShape ==
    (last.op = "provision" /\ BusinessNameAccepted(last.name)) =>
        LET gen == GenerateSecureSubdomain(last.name, active_subdomains)
        IN  /\ ~gen.raised
            /\ \A i \in 1..Len(gen.clean_name) : gen.clean_name[i] \in AlNum
            /\ Len(last.gates) >= 2
            /\ last.result.success \/
                   last.result.error \notin
                       {"Subdomain must be between 3 and 63 characters.",
                        "Subdomain must contain only lowercase letters, numbers, and hyphens."}

====
